---- MODULE Spec2Model ----
(***************************************************************************)
(* Model of server.py: the Arduino project manager's two listing caches    *)
(* (PROJECT_CACHE, LIBRARY_CACHE), the directory scanner that fills them,  *)
(* and the HTTP handlers that read and write project files.                *)
(*                                                                         *)
(* The disk below ARDUINO_DIR is a tree: a set of directory paths and a    *)
(* map from file paths to the bytes stored there.  A path is the sequence  *)
(* of its components; a string of the program (a name, a relative path, a  *)
(* file's text) is modelled by its characters' code points wherever the    *)
(* code looks inside it (startswith, lower, sorted, newline translation).  *)
(* Each handler is `async def` without an await, so it runs to completion  *)
(* before the next request starts: one action per handler.  Changes made   *)
(* to the disk by other programs happen between two requests.  The writes  *)
(* and the full rebuild are also given statement by statement, under the   *)
(* event loop that runs them (SpecConcurrent).                             *)
(***************************************************************************)
EXTENDS Integers, Sequences, FiniteSets, TLC

VARIABLES
    disk,            \* [dirs: set of paths, files: path -> bytes] below ARDUINO_DIR
    PROJECT_CACHE,   \* name -> [path, files]
    LIBRARY_CACHE,   \* name -> [path, files]
    last,            \* the step taken last: a request and its response, or "outside"
    oob,             \* number of out-of-band changes made to the disk so far
    loop             \* the event loop: the requests accepted and the handler it runs

vars == <<disk, PROJECT_CACHE, LIBRARY_CACHE, last, oob, loop>>

----------------------------------------------------------------------------
(* Bounds of the model *)

\* files this model lets exist outside the installed library
MaxProjFiles == 2
\* out-of-band changes of the disk in one run
MaxOob == 1
\* requests accepted in one run of the statement-by-statement model
MaxAccepted == 3

----------------------------------------------------------------------------
(* Strings: the code points of every name the model uses *)

Strings ==
    {"P", "Tools", "tools", "libraries", "hardware", ".hid", "L", "M", "examples",
     "E", "a.ino", "data", "b.txt", ".x", ".git", "Thumbs.db", ".DS_Store",
     ".", ".ino", "P.ino", "Tools.ino", "libraries.ino", ".hid.ino", "M.h"}

CharTable ==
    [s \in Strings |->
    CASE s = "P"             -> <<80>>
      [] s = "Tools"         -> <<84, 111, 111, 108, 115>>
      [] s = "tools"         -> <<116, 111, 111, 108, 115>>
      [] s = "libraries"     -> <<108, 105, 98, 114, 97, 114, 105, 101, 115>>
      [] s = "hardware"      -> <<104, 97, 114, 100, 119, 97, 114, 101>>
      [] s = ".hid"          -> <<46, 104, 105, 100>>
      [] s = "L"             -> <<76>>
      [] s = "M"             -> <<77>>
      [] s = "examples"      -> <<101, 120, 97, 109, 112, 108, 101, 115>>
      [] s = "E"             -> <<69>>
      [] s = "a.ino"         -> <<97, 46, 105, 110, 111>>
      [] s = "data"          -> <<100, 97, 116, 97>>
      [] s = "b.txt"         -> <<98, 46, 116, 120, 116>>
      [] s = ".x"            -> <<46, 120>>
      [] s = ".git"          -> <<46, 103, 105, 116>>
      [] s = "Thumbs.db"     -> <<84, 104, 117, 109, 98, 115, 46, 100, 98>>
      [] s = ".DS_Store"     -> <<46, 68, 83, 95, 83, 116, 111, 114, 101>>
      [] s = "."             -> <<46>>
      [] s = ".ino"          -> <<46, 105, 110, 111>>
      [] s = "P.ino"         -> <<80, 46, 105, 110, 111>>
      [] s = "Tools.ino"     -> <<84, 111, 111, 108, 115, 46, 105, 110, 111>>
      [] s = "libraries.ino" -> <<108, 105, 98, 114, 97, 114, 105, 101, 115,
                                  46, 105, 110, 111>>
      [] s = ".hid.ino"      -> <<46, 104, 105, 100, 46, 105, 110, 111>>
      [] s = "M.h"           -> <<77, 46, 104>>]

Chars(s) == CharTable[s]

\* the string with the given characters
StrOf(cs) == CHOOSE s \in Strings : Chars(s) = cs

\* str.startswith('.')
StartsWithDot(s) == Chars(s)[1] = 46

\* str.lower() on the characters
LowerChar(c) == IF c >= 65 /\ c <= 90 THEN c + 32 ELSE c
Lower(s) == [i \in 1..Len(Chars(s)) |-> LowerChar(Chars(s)[i])]

\* f"{project_name}.ino"
DefaultSketch(project_name) == StrOf(Chars(project_name) \o Chars(".ino"))

\* str(rel_path): the components joined by '/'
RECURSIVE PathStr(_)
PathStr(rel) ==
    IF rel = <<>> THEN <<46>>
    ELSE IF Len(rel) = 1 THEN Chars(rel[1])
    ELSE Chars(rel[1]) \o <<47>> \o PathStr(Tail(rel))

\* Python's < on two strings: by code point, a proper prefix first
RECURSIVE StrLess(_, _)
StrLess(a, b) ==
    IF a = <<>> THEN b # <<>>
    ELSE IF b = <<>> THEN FALSE
    ELSE IF a[1] # b[1] THEN a[1] < b[1]
    ELSE StrLess(Tail(a), Tail(b))

PathLess(p, q) == StrLess(PathStr(p), PathStr(q))

\* sorted(file_paths)
RECURSIVE SetToSeq(_)
SetToSeq(S) ==
    IF S = {} THEN <<>>
    ELSE LET x == CHOOSE y \in S : TRUE IN <<x>> \o SetToSeq(S \ {x})

Sorted(S) == SortSeq(SetToSeq(S), PathLess)

----------------------------------------------------------------------------
(* Paths and the disk *)

\* Path(base) / file_path: pathlib drops the "." components
RECURSIVE Normal(_)
Normal(rel) ==
    IF rel = <<>> THEN <<>>
    ELSE IF rel[1] = "." THEN Normal(Tail(rel))
    ELSE <<rel[1]>> \o Normal(Tail(rel))

Join(base, rel) == base \o Normal(rel)

Parent(p) == SubSeq(p, 1, Len(p) - 1)
Name(p) == p[Len(p)]
IsPrefix(p, q) == Len(p) <= Len(q) /\ SubSeq(q, 1, Len(p)) = p
Prefixes(p) == {SubSeq(p, 1, i) : i \in 0..Len(p)}
RelativeTo(p, base) == SubSeq(p, Len(base) + 1, Len(p))

IsFile(d, p) == p \in DOMAIN d.files
IsDir(d, p) == p \in d.dirs
\* Path.exists()
Exists(d, p) == IsDir(d, p) \/ IsFile(d, p)

\* Path.mkdir(parents=True, exist_ok=True); fails when a file is in the way
MkdirP(d, p) ==
    IF \E q \in Prefixes(p) : IsFile(d, q)
    THEN [ok |-> FALSE, disk |-> d]
    ELSE [ok |-> TRUE, disk |-> [d EXCEPT !.dirs = @ \cup Prefixes(p)]]

\* the file map with one file written
Put(files, p, bytes) ==
    [q \in DOMAIN files \cup {p} |-> IF q = p THEN bytes ELSE files[q]]

\* shutil.rmtree / unlink of whatever is at p
Remove(d, p) ==
    [dirs  |-> {q \in d.dirs : ~IsPrefix(p, q)},
     files |-> [q \in {r \in DOMAIN d.files : ~IsPrefix(p, r)} |-> d.files[q]]]

----------------------------------------------------------------------------
(* Text files: open(..., "w", encoding="utf-8") and                        *)
(* open(..., "r", encoding="utf-8", errors="replace"), both with the       *)
(* default newline=None                                                    *)

\* platform.system(); the model is the POSIX build ('/' separates components)
OS_TYPE == "Linux"

\* os.linesep
LineSep == IF OS_TYPE = "Windows" THEN <<13, 10>> ELSE <<10>>

\* f.write(content): '\n' is written as os.linesep
RECURSIVE Encode(_)
Encode(text) ==
    IF text = <<>> THEN <<>>
    ELSE IF text[1] = 10 THEN LineSep \o Encode(Tail(text))
    ELSE <<text[1]>> \o Encode(Tail(text))

\* errors="replace": a byte that is no UTF-8 becomes U+FFFD
ReplaceBad(b) == IF b > 127 THEN 65533 ELSE b

\* f.read(): universal newlines, '\r\n' and '\r' are returned as '\n'
RECURSIVE Decode(_)
Decode(bytes) ==
    IF bytes = <<>> THEN <<>>
    ELSE IF bytes[1] = 13
         THEN IF Len(bytes) > 1 /\ bytes[2] = 10
              THEN <<10>> \o Decode(Tail(Tail(bytes)))
              ELSE <<10>> \o Decode(Tail(bytes))
         ELSE <<ReplaceBad(bytes[1])>> \o Decode(Tail(bytes))

----------------------------------------------------------------------------
(* The directory scanner *)

\* mutation: only the files whose name starts with '.' are skipped
SkippedFile_DotOnly(f) == StartsWithDot(f)

\* f.startswith('.') or f in ['.DS_Store', 'Thumbs.db']
SkippedFile(f) == StartsWithDot(f) \/ f \in {".DS_Store", "Thumbs.db"}

\* dirs[:] = [d for d in dirs if not d.startswith('.')]
SkippedDir(dn) == StartsWithDot(dn)

\* os.walk(top) with the two filters: the files it reaches, as full paths
RECURSIVE Walk(_, _)
Walk(d, top) ==
    IF ~IsDir(d, top) THEN {}
    ELSE LET here == {p \in DOMAIN d.files : Parent(p) = top /\ ~SkippedFile(Name(p))}
             subs == {q \in d.dirs : Len(q) = Len(top) + 1 /\ Parent(q) = top
                                     /\ ~SkippedDir(Name(q))}
         IN here \cup UNION {Walk(d, q) : q \in subs}

get_files_in_dir(d, base_dir) ==
    Sorted({RelativeTo(p, base_dir) : p \in Walk(d, base_dir)})

----------------------------------------------------------------------------
(* The two tables *)

Entry(d, dir) == [path |-> dir, files |-> get_files_in_dir(d, dir)]

\* the immediate entries of a directory: Path.iterdir()
IterDir(d, dir) ==
    {p \in d.dirs \cup DOMAIN d.files : Len(p) = Len(dir) + 1 /\ Parent(p) = dir}

excluded_dirs == {"hardware", "libraries", "tools"}

\* mutation: the exclusion compares the name as it is, without lower()
ExcludedProject_CaseSensitive(n) == StartsWithDot(n) \/ n \in excluded_dirs

\* item.name.startswith('.') or item.name.lower() in excluded_dirs
ExcludedProject(n) ==
    StartsWithDot(n) \/ Lower(n) \in {Chars(e) : e \in excluded_dirs}

build_initial_project_cache(d) ==
    LET items == {p \in IterDir(d, <<>>) : IsDir(d, p) /\ ~ExcludedProject(Name(p))}
    IN [n \in {Name(p) : p \in items} |-> Entry(d, <<n>>)]

\* dict with one key set, dict with one key popped
Upsert(table, n, e) ==
    [k \in DOMAIN table \cup {n} |-> IF k = n THEN e ELSE table[k]]
Pop(table, n) == [k \in DOMAIN table \ {n} |-> table[k]]

\* mutation: an entry whose directory is gone is kept
refresh_project_cache_KeepsStale(d, table, project_name) ==
    IF ~Exists(d, <<project_name>>)
    THEN table
    ELSE Upsert(table, project_name, Entry(d, <<project_name>>))

refresh_project_cache(d, table, project_name) ==
    IF ~Exists(d, <<project_name>>)
    THEN Pop(table, project_name)
    ELSE Upsert(table, project_name, Entry(d, <<project_name>>))

\* the disk after libraries_dir.mkdir, and the rebuilt table
build_library_cache(d) ==
    LET libraries_dir == <<"libraries">>
        d2 == IF ~Exists(d, libraries_dir) THEN MkdirP(d, libraries_dir).disk ELSE d
        folders == {p \in IterDir(d2, libraries_dir) :
                        IsDir(d2, p) /\ ~StartsWithDot(Name(p))}
    IN [disk |-> d2,
        table |-> [n \in {Name(p) : p \in folders} |-> Entry(d2, <<"libraries", n>>)]]

----------------------------------------------------------------------------
(* File access *)

\* create_or_update_file: ok is FALSE where the code raises
create_or_update_file(d, base_dir, relative_file_path, content) ==
    LET full_path == Join(base_dir, relative_file_path)
        mk == MkdirP(d, Parent(full_path))
    IN IF ~mk.ok THEN [ok |-> FALSE, disk |-> d]
       ELSE IF IsDir(mk.disk, full_path) THEN [ok |-> FALSE, disk |-> mk.disk]
       ELSE [ok |-> TRUE,
             disk |-> [mk.disk EXCEPT !.files = Put(@, full_path, Encode(content))]]

\* request.file_path if request.file_path else f"{project_name}.ino"
SketchPath(project_name, file_path) ==
    IF file_path # <<>> THEN file_path ELSE <<DefaultSketch(project_name)>>

\* mutation: the copy loop does not descend into subfolders
CopyWalk_TopOnly(d, src, dest_dir) ==
    LET mk == MkdirP(d, dest_dir)
        files == {p \in DOMAIN d.files : Parent(p) = src /\ ~SkippedFile(Name(p))}
    IN IF ~mk.ok THEN [ok |-> FALSE, disk |-> d]
       ELSE [ok |-> TRUE,
             disk |-> [mk.disk EXCEPT !.files =
                          [q \in DOMAIN @ \cup {dest_dir \o <<Name(p)>> : p \in files} |->
                              IF \E p \in files : dest_dir \o <<Name(p)>> = q
                              THEN d.files[CHOOSE p \in files : dest_dir \o <<Name(p)>> = q]
                              ELSE @[q]]]]

\* the copy loop of copy_library_example: os.walk(source_folder), top down
RECURSIVE CopyWalk(_, _, _)
CopyWalk(d, src, dest_dir) ==
    LET mk == MkdirP(d, dest_dir)
        files == {p \in DOMAIN d.files : Parent(p) = src /\ ~SkippedFile(Name(p))}
        subs == {q \in d.dirs : Len(q) = Len(src) + 1 /\ Parent(q) = src
                                /\ ~SkippedDir(Name(q))}
        target(p) == dest_dir \o <<Name(p)>>
    IN IF ~mk.ok THEN [ok |-> FALSE, disk |-> d]
       ELSE IF \E p \in files : IsDir(mk.disk, target(p))
       THEN [ok |-> FALSE, disk |-> mk.disk]
       ELSE LET copied == [mk.disk EXCEPT !.files =
                               [q \in DOMAIN @ \cup {target(p) : p \in files} |->
                                   IF \E p \in files : target(p) = q
                                   THEN d.files[CHOOSE p \in files : target(p) = q]
                                   ELSE @[q]]]
                order == SetToSeq(subs)
                step[i \in 0..Len(order)] ==
                    IF i = 0 THEN [ok |-> TRUE, disk |-> copied]
                    ELSE IF ~step[i - 1].ok THEN step[i - 1]
                    ELSE CopyWalk(step[i - 1].disk, order[i],
                                  dest_dir \o <<Name(order[i])>>)
            IN step[Len(order)]

----------------------------------------------------------------------------
(* Handlers: the response, and the disk and tables the handler leaves *)

\* the body of an answer that is described by its status, files and content
NoBody == [status |-> ""]

Answer(status, files, content, d, pc, lc) ==
    [status |-> status, files |-> files, content |-> content, body |-> NoBody,
     disk |-> d, projects |-> pc, libraries |-> lc]

\* mutation: a name missing from the table is refreshed without a look at the disk
list_files_in_project_NoDiskCheck(d, pc, lc, project_name) ==
    LET pc2 == IF project_name \notin DOMAIN pc
               THEN refresh_project_cache(d, pc, project_name) ELSE pc
    IN IF project_name \in DOMAIN pc2
       THEN Answer(200, pc2[project_name].files, <<>>, d, pc2, lc)
       ELSE Answer(500, <<>>, <<>>, d, pc2, lc)

list_files_in_project(d, pc, lc, project_name) ==
    IF project_name \notin DOMAIN pc
    THEN IF ~Exists(d, <<project_name>>)
         THEN Answer(404, <<>>, <<>>, d, pc, lc)
         ELSE LET pc2 == refresh_project_cache(d, pc, project_name)
              IN Answer(200, pc2[project_name].files, <<>>, d, pc2, lc)
    ELSE Answer(200, pc[project_name].files, <<>>, d, pc, lc)

InListing(file_path, files) == \E i \in 1..Len(files) : files[i] = file_path

\* the "Read content" part of read_file
ReadContent(d, pc, lc, project_name, file_path) ==
    LET full_path == Join(pc[project_name].path, file_path)
    IN IF IsFile(d, full_path)
       THEN Answer(200, <<>>, Decode(d.files[full_path]), d, pc, lc)
       ELSE Answer(500, <<>>, <<>>, d, pc, lc)

\* mutation: a path missing from the cached listing is not looked up on disk
read_file_NoRescan(d, pc, lc, project_name, file_path) ==
    LET pc1 == IF project_name \notin DOMAIN pc
               THEN refresh_project_cache(d, pc, project_name) ELSE pc
    IN IF project_name \notin DOMAIN pc1
       THEN Answer(404, <<>>, <<>>, d, pc1, lc)
       ELSE IF ~InListing(file_path, pc1[project_name].files)
       THEN Answer(404, <<>>, <<>>, d, pc1, lc)
       ELSE ReadContent(d, pc1, lc, project_name, file_path)

\* mutation: a name missing from the table is not refreshed
read_file_TableOnly(d, pc, lc, project_name, file_path) ==
    IF project_name \notin DOMAIN pc
    THEN Answer(404, <<>>, <<>>, d, pc, lc)
    ELSE IF ~InListing(file_path, pc[project_name].files)
    THEN IF ~Exists(d, Join(pc[project_name].path, file_path))
         THEN Answer(404, <<>>, <<>>, d, pc, lc)
         ELSE LET pc2 == refresh_project_cache(d, pc, project_name)
              IN IF project_name \notin DOMAIN pc2
                 THEN Answer(500, <<>>, <<>>, d, pc2, lc)
                 ELSE IF ~InListing(file_path, pc2[project_name].files)
                 THEN Answer(404, <<>>, <<>>, d, pc2, lc)
                 ELSE ReadContent(d, pc2, lc, project_name, file_path)
    ELSE ReadContent(d, pc, lc, project_name, file_path)

read_file(d, pc, lc, project_name, file_path) ==
    LET pc1 == IF project_name \notin DOMAIN pc
               THEN refresh_project_cache(d, pc, project_name) ELSE pc
    IN IF project_name \notin DOMAIN pc1
       THEN Answer(404, <<>>, <<>>, d, pc1, lc)
       ELSE IF ~InListing(file_path, pc1[project_name].files)
       THEN IF ~Exists(d, Join(pc1[project_name].path, file_path))
            THEN Answer(404, <<>>, <<>>, d, pc1, lc)
            ELSE LET pc2 == refresh_project_cache(d, pc1, project_name)
                 IN IF project_name \notin DOMAIN pc2
                    THEN Answer(500, <<>>, <<>>, d, pc2, lc)
                    ELSE IF ~InListing(file_path, pc2[project_name].files)
                    THEN Answer(404, <<>>, <<>>, d, pc2, lc)
                    ELSE ReadContent(d, pc2, lc, project_name, file_path)
       ELSE ReadContent(d, pc1, lc, project_name, file_path)

\* mutation: an existing directory is not refused
create_project_NoConflictCheck(d, pc, lc, project_name, sketch_content, file_path) ==
    LET project_dir == <<project_name>>
        mk == MkdirP(d, project_dir)
        w == create_or_update_file(mk.disk, project_dir,
                 SketchPath(project_name, file_path), sketch_content)
    IN IF ~mk.ok THEN Answer(500, <<>>, <<>>, d, pc, lc)
       ELSE IF ~w.ok THEN Answer(500, <<>>, <<>>, w.disk, pc, lc)
       ELSE Answer(200, <<>>, <<>>, w.disk,
                   refresh_project_cache(w.disk, pc, project_name), lc)

create_project(d, pc, lc, project_name, sketch_content, file_path) ==
    LET project_dir == <<project_name>>
    IN IF Exists(d, project_dir)
       THEN Answer(400, <<>>, <<>>, d, pc, lc)
       ELSE LET mk == MkdirP(d, project_dir)
                w == create_or_update_file(mk.disk, project_dir,
                         SketchPath(project_name, file_path), sketch_content)
            IN IF ~mk.ok THEN Answer(500, <<>>, <<>>, d, pc, lc)
               ELSE IF ~w.ok THEN Answer(500, <<>>, <<>>, w.disk, pc, lc)
               ELSE Answer(200, <<>>, <<>>, w.disk,
                           refresh_project_cache(w.disk, pc, project_name), lc)

\* mutation: the write is not followed by the single-entry refresh
update_sketch_NoRefresh(d, pc, lc, project_name, sketch_content, file_path) ==
    LET project_dir == <<project_name>>
    IN IF ~Exists(d, project_dir)
       THEN Answer(404, <<>>, <<>>, d, pc, lc)
       ELSE LET w == create_or_update_file(d, project_dir,
                         SketchPath(project_name, file_path), sketch_content)
            IN IF ~w.ok THEN Answer(500, <<>>, <<>>, w.disk, pc, lc)
               ELSE Answer(200, <<>>, <<>>, w.disk, pc, lc)

update_sketch(d, pc, lc, project_name, sketch_content, file_path) ==
    LET project_dir == <<project_name>>
    IN IF ~Exists(d, project_dir)
       THEN Answer(404, <<>>, <<>>, d, pc, lc)
       ELSE LET w == create_or_update_file(d, project_dir,
                         SketchPath(project_name, file_path), sketch_content)
            IN IF ~w.ok THEN Answer(500, <<>>, <<>>, w.disk, pc, lc)
               ELSE Answer(200, <<>>, <<>>, w.disk,
                           refresh_project_cache(w.disk, pc, project_name), lc)

\* sorted(table.keys()), each name as a one-component path
SortedKeys(table) == Sorted({<<n>> : n \in DOMAIN table})

list_projects(d, pc, lc) ==
    LET pc2 == build_initial_project_cache(d)
    IN Answer(200, SortedKeys(pc2), <<>>, d, pc2, lc)

list_libraries(d, pc, lc) ==
    LET b == build_library_cache(d)
    IN Answer(200, SortedKeys(b.table), <<>>, b.disk, pc, b.table)

\* mutation: the copy also rebuilds the library table
copy_library_example_Rebuilds(d, pc, lc, library_name, example_folder, new_project_name) ==
    IF library_name \notin DOMAIN lc
    THEN Answer(404, <<>>, <<>>, d, pc, lc)
    ELSE LET source_folder == lc[library_name].path \o <<"examples", example_folder>>
             project_dir == <<new_project_name>>
             mk == MkdirP(d, project_dir)
             c == CopyWalk(mk.disk, source_folder, project_dir)
         IN IF ~IsDir(d, source_folder) THEN Answer(404, <<>>, <<>>, d, pc, lc)
            ELSE IF ~mk.ok THEN Answer(500, <<>>, <<>>, d, pc, lc)
            ELSE IF ~c.ok THEN Answer(500, <<>>, <<>>, c.disk, pc, lc)
            ELSE Answer(200, <<>>, <<>>, c.disk,
                        refresh_project_cache(c.disk, pc, new_project_name),
                        build_library_cache(c.disk).table)

copy_library_example(d, pc, lc, library_name, example_folder, new_project_name) ==
    IF library_name \notin DOMAIN lc
    THEN Answer(404, <<>>, <<>>, d, pc, lc)
    ELSE LET source_folder == lc[library_name].path \o <<"examples", example_folder>>
             project_dir == <<new_project_name>>
             mk == MkdirP(d, project_dir)
             c == CopyWalk(mk.disk, source_folder, project_dir)
         IN IF ~IsDir(d, source_folder) THEN Answer(404, <<>>, <<>>, d, pc, lc)
            ELSE IF ~mk.ok THEN Answer(500, <<>>, <<>>, d, pc, lc)
            ELSE IF ~c.ok THEN Answer(500, <<>>, <<>>, c.disk, pc, lc)
            ELSE Answer(200, <<>>, <<>>, c.disk,
                        refresh_project_cache(c.disk, pc, new_project_name), lc)

\* the deprecated read_files: the listing, by the same steps
read_files(d, pc, lc, project_name) ==
    IF project_name \notin DOMAIN pc
    THEN IF ~Exists(d, <<project_name>>)
         THEN Answer(404, <<>>, <<>>, d, pc, lc)
         ELSE LET pc2 == refresh_project_cache(d, pc, project_name)
              IN Answer(200, pc2[project_name].files, <<>>, d, pc2, lc)
    ELSE Answer(200, pc[project_name].files, <<>>, d, pc, lc)

\* an answer that carries a JSON body of its own
Reply(status, body, d, pc, lc) ==
    [status |-> status, files |-> <<>>, content |-> <<>>, body |-> body,
     disk |-> d, projects |-> pc, libraries |-> lc]

\* project_dir.exists() and project_dir.is_dir()
check_folder(d, pc, lc, project_name) ==
    Reply(200, [exists |-> IsDir(d, <<project_name>>)], d, pc, lc)

\* mutation: a library missing from the table is looked up on disk and inserted
list_files_in_library_ChecksDisk(d, pc, lc, library_name) ==
    IF library_name \notin DOMAIN lc
    THEN IF ~IsDir(d, <<"libraries", library_name>>)
         THEN Answer(404, <<>>, <<>>, d, pc, lc)
         ELSE LET e == Entry(d, <<"libraries", library_name>>)
              IN Answer(200, e.files, <<>>, d, pc, Upsert(lc, library_name, e))
    ELSE Answer(200, lc[library_name].files, <<>>, d, pc, lc)

list_files_in_library(d, pc, lc, library_name) ==
    IF library_name \notin DOMAIN lc
    THEN Answer(404, <<>>, <<>>, d, pc, lc)
    ELSE Answer(200, lc[library_name].files, <<>>, d, pc, lc)

read_library_file(d, pc, lc, library_name, file_path) ==
    IF library_name \notin DOMAIN lc
    THEN Answer(404, <<>>, <<>>, d, pc, lc)
    ELSE IF ~InListing(file_path, lc[library_name].files)
    THEN Answer(404, <<>>, <<>>, d, pc, lc)
    ELSE LET full_path == Join(lc[library_name].path, file_path)
         IN IF IsFile(d, full_path)
            THEN Answer(200, <<>>, Decode(d.files[full_path]), d, pc, lc)
            ELSE Answer(500, <<>>, <<>>, d, pc, lc)

----------------------------------------------------------------------------
(* The external tool *)

\* what subprocess.run(command, capture_output=True, text=True, check=True)
\* does: it returns (exit code 0), raises CalledProcessError (another exit
\* code), or raises something else (the process could not be run)
NoRun == [kind |-> "", stdout |-> "", stderr |-> "", text |-> ""]
Returned(stdout, stderr) ==
    [kind |-> "returned", stdout |-> stdout, stderr |-> stderr, text |-> ""]
CalledProcessError(stdout, stderr) ==
    [kind |-> "CalledProcessError", stdout |-> stdout, stderr |-> stderr, text |-> ""]
Raised(text) ==
    [kind |-> "Exception", stdout |-> "", stderr |-> "", text |-> text]

\* mutation: the tool's output is returned whatever the exit code
run_command_IgnoresExitCode(run) ==
    IF run.kind = "Exception"
    THEN [status |-> "error", output |-> "", error |-> run.text]
    ELSE [status |-> "success", output |-> run.stdout, error |-> ""]

run_command(run) ==
    IF run.kind = "returned"
    THEN [status |-> "success", output |-> run.stdout, error |-> ""]
    ELSE IF run.kind = "CalledProcessError"
    THEN [status |-> "error", output |-> "", error |-> run.stderr]
    ELSE [status |-> "error", output |-> "", error |-> run.text]

compile_project(d, pc, lc, project_name, run) ==
    LET project_dir == <<project_name>>
        ino_file == project_dir \o <<DefaultSketch(project_name)>>
    IN IF ~Exists(d, project_dir) \/ ~Exists(d, ino_file)
       THEN Answer(404, <<>>, <<>>, d, pc, lc)
       ELSE LET result == run_command(run)
            IN IF result.status = "error"
               THEN Reply(200, [status |-> "error", message |-> result.error], d, pc, lc)
               ELSE Reply(200, result, d, pc, lc)

upload_project(d, pc, lc, project_name, run) ==
    LET project_dir == <<project_name>>
        ino_file == project_dir \o <<DefaultSketch(project_name)>>
    IN IF ~Exists(d, project_dir) \/ ~Exists(d, ino_file)
       THEN Answer(404, <<>>, <<>>, d, pc, lc)
       ELSE LET result == run_command(run)
            IN IF result.status = "error"
               THEN Reply(200, [status |-> "error", message |-> result.error], d, pc, lc)
               ELSE Reply(200, result, d, pc, lc)

\* the handlers that return run_command's result as it is:
\* list_libraries_installed, search_library, list_connected_boards,
\* search_cores, install_core, uninstall_core
relay_command(d, pc, lc, run) == Reply(200, run_command(run), d, pc, lc)

\* mutation: the table is not rebuilt after the tool has run
manage_library_NoRebuild(d, pc, lc, run) == Reply(200, run_command(run), d, pc, lc)

\* install_library, uninstall_library, update_library, update_all_libraries:
\* d is the disk the tool leaves
manage_library(d, pc, lc, run) ==
    LET r == run_command(run)
        b == build_library_cache(d)
    IN Reply(200, r, b.disk, pc, b.table)

----------------------------------------------------------------------------
(* The inputs of the model *)

ProjectNames == {"P", "Tools", "libraries", ".hid"}

\* (file_path, sketch_content) of a write; <<>> is the omitted (or empty)
\* file_path, the contents are "v" and "v\r\n"
Writes(n) ==
    IF n = "P"
    THEN ({<<>>, <<"a.ino">>, <<"data", "b.txt">>, <<".x">>, <<".", "a.ino">>}
              \X {<<118>>})
         \cup {<<<<>>, <<118, 13, 10>>>>}
    ELSE {<<<<>>, <<118>>>>}

\* the same, and a file named like the example's subfolder
Creates(n) == IF n = "P" THEN Writes(n) \cup {<<<<"data">>, <<118>>>>} ELSE Writes(n)

WriteNames == {"P", "Tools"}

\* file_path of a read
ReadPaths(n) ==
    IF n = "P"
    THEN {<<"P.ino">>, <<"a.ino">>, <<"data", "b.txt">>, <<".x">>, <<".", "a.ino">>,
          <<"data">>}
    ELSE {<<DefaultSketch(n)>>}

LibraryNames == {"L"}
ExampleFolders == {"E", "data"}
CopyTargets == {"P"}

\* library names of the requests that browse or manage libraries
BrowsedLibraries == {"L", "M"}

\* file_path of a read in a library
LibraryReadPaths(l) ==
    IF l = "L"
    THEN {<<"examples", "E", "a.ino">>, <<"examples", "E", "data", "b.txt">>,
          <<"examples", "E", ".x">>}
    ELSE {<<"M.h">>}

\* what the tool's process may do: exit 0, exit with another code, fail to run
Runs == {Returned("out", "warn"), CalledProcessError("out", "err"), Raised("exc")}

\* the handlers that only return the tool's result
RelayOps ==
    {"list_libraries_installed", "search_library", "list_connected_boards",
     "search_cores", "install_core", "uninstall_core"}

ManageOps == {"install_library", "uninstall_library", "update_library"}

\* library_name of these requests
ManagedLibraries == {"M"}

\* what another program may write into a project: a sketch whose bytes are
\* no UTF-8
OobPaths == {<<"a.ino">>}
OobBytes == {<<255>>}

\* the installed library L with its example folder E
ExampleDir == <<"libraries", "L", "examples", "E">>
LibraryFiles ==
    {ExampleDir \o <<"a.ino">>, ExampleDir \o <<"data", "b.txt">>,
     ExampleDir \o <<".x">>, ExampleDir \o <<"Thumbs.db">>,
     ExampleDir \o <<".git", "a.ino">>}
LibraryDisk ==
    [dirs  |-> UNION {Prefixes(Parent(p)) : p \in LibraryFiles},
     files |-> [p \in LibraryFiles |-> IF Name(p) = "b.txt" THEN <<118, 13, 10>>
                                        ELSE <<118>>]]

\* the same with the IDE's hardware folder, a hidden folder and one project
WorkDisk ==
    [dirs  |-> LibraryDisk.dirs \cup {<<"hardware">>, <<".hid">>, <<"P">>},
     files |-> Put(LibraryDisk.files, <<"P", "a.ino">>, <<118>>)]

StartDisks == {LibraryDisk, WorkDisk}

\* the disk with library l as arduino-cli installs it
Installed(d, l) ==
    IF l = "L"
    THEN [dirs  |-> d.dirs \cup LibraryDisk.dirs,
          files |-> [p \in DOMAIN d.files \cup LibraryFiles |->
                        IF p \in LibraryFiles THEN LibraryDisk.files[p]
                        ELSE d.files[p]]]
    ELSE LET w == create_or_update_file(d, <<"libraries", l>>, <<"M.h">>, <<118>>)
         IN IF w.ok THEN w.disk ELSE d

\* the disk with library l at its next version
Updated(d, l) ==
    IF IsDir(d, <<"libraries", l>>)
    THEN LET w == create_or_update_file(d, <<"libraries", l>>, <<"b.txt">>, <<118>>)
         IN IF w.ok THEN w.disk ELSE d
    ELSE d

\* the disks arduino-cli may leave: the command did nothing, or it did its work
ToolEffects(op, d, l) ==
    {d} \cup (CASE op = "install_library"   -> {Installed(d, l)}
               [] op = "uninstall_library" -> {Remove(d, <<"libraries", l>>)}
               [] op = "update_library"    -> {Updated(d, l)}
               [] OTHER -> {Updated(d, "M")})

\* the files that count against MaxProjFiles
ProjFiles(d) == {p \in DOMAIN d.files : ~IsPrefix(<<"libraries">>, p)}

----------------------------------------------------------------------------
(* The state machine *)

Request(op, name, file, text, lib, ex) ==
    [op |-> op, name |-> name, file |-> file, text |-> text, lib |-> lib, ex |-> ex,
     run |-> NoRun]

\* a request that makes the server run the external tool, with what the
\* tool's process does
ToolRequest(op, name, lib, run) ==
    [Request(op, name, <<>>, <<>>, lib, "") EXCEPT !.run = run]

\* the request, what it met (was its name in the project table, with which
\* listing; was its directory on the disk), and the answer
Served(req, r) ==
    [op |-> req.op, name |-> req.name, file |-> req.file, text |-> req.text,
     lib |-> req.lib, ex |-> req.ex, run |-> req.run,
     libhit |-> req.lib \in DOMAIN LIBRARY_CACHE,
     libpre |-> IF req.lib \in DOMAIN LIBRARY_CACHE
                THEN LIBRARY_CACHE[req.lib].files ELSE <<>>,
     hit |-> req.name \in DOMAIN PROJECT_CACHE,
     pre |-> IF req.name \in DOMAIN PROJECT_CACHE
             THEN PROJECT_CACHE[req.name].files ELSE <<>>,
     there |-> Exists(disk, <<req.name>>),
     status |-> r.status, files |-> r.files, content |-> r.content,
     body |-> r.body]

\* the connections of the statement-by-statement model
Slots == {1, 2}

\* a connection without a request
NoTask ==
    [op |-> "", name |-> "", file |-> <<>>, text |-> <<>>, pc |-> "none",
     status |-> 0, todo |-> {}, item |-> "", files |-> <<>>, overlap |-> FALSE]

\* the event loop with no request accepted and no handler running
NoLoop == [running |-> 0, accepted |-> 0, tasks |-> [s \in Slots |-> NoTask]]

\* no request
Blank ==
    [op |-> "", name |-> "", file |-> <<>>, text |-> <<>>, lib |-> "", ex |-> "",
     run |-> NoRun, libhit |-> FALSE, libpre |-> <<>>,
     hit |-> FALSE, pre |-> <<>>, there |-> FALSE,
     status |-> 0, files |-> <<>>, content |-> <<>>, body |-> NoBody]

\* no handler is between its first statement and its response
Idle == last.op \in {"", "startup", "outside"}

\* a handler runs from its first statement to its return in one step: it is
\* `async def` and awaits nothing
Serve(req, answer) == Idle /\ \E r \in {answer} :
    /\ Cardinality(ProjFiles(r.disk)) <= MaxProjFiles
    /\ disk' = r.disk
    /\ PROJECT_CACHE' = r.projects
    /\ LIBRARY_CACHE' = r.libraries
    /\ last' = Served(req, r)
    /\ UNCHANGED <<oob, loop>>

\* module import: build_initial_project_cache(), build_library_cache()
Init ==
    \E d \in StartDisks :
        /\ disk = build_library_cache(d).disk
        /\ PROJECT_CACHE = build_initial_project_cache(d)
        /\ LIBRARY_CACHE = build_library_cache(d).table
        /\ last = [Blank EXCEPT !.op = "startup"]
        /\ oob = 0
        /\ loop = NoLoop

ListFilesInProject ==
    \E n \in ProjectNames :
        Serve(Request("list_files_in_project", n, <<>>, <<>>, "", ""),
              list_files_in_project(disk, PROJECT_CACHE, LIBRARY_CACHE, n))

ReadFile ==
    \E n \in ProjectNames : \E f \in ReadPaths(n) :
        Serve(Request("read_file", n, f, <<>>, "", ""),
              read_file(disk, PROJECT_CACHE, LIBRARY_CACHE, n, f))

CreateProject ==
    \E n \in WriteNames : \E w \in Creates(n) :
        Serve(Request("create_project", n, w[1], w[2], "", ""),
              create_project(disk, PROJECT_CACHE, LIBRARY_CACHE, n, w[2], w[1]))

UpdateSketch ==
    \E n \in WriteNames : \E w \in Writes(n) :
        Serve(Request("update_sketch", n, w[1], w[2], "", ""),
              update_sketch(disk, PROJECT_CACHE, LIBRARY_CACHE, n, w[2], w[1]))

ListProjects ==
    Serve(Request("list_projects", "", <<>>, <<>>, "", ""),
          list_projects(disk, PROJECT_CACHE, LIBRARY_CACHE))

ListLibraries ==
    Serve(Request("list_libraries", "", <<>>, <<>>, "", ""),
          list_libraries(disk, PROJECT_CACHE, LIBRARY_CACHE))

CopyLibraryExample ==
    \E l \in LibraryNames : \E e \in ExampleFolders : \E n \in CopyTargets :
        Serve(Request("copy_library_example", n, <<>>, <<>>, l, e),
              copy_library_example(disk, PROJECT_CACHE, LIBRARY_CACHE, l, e, n))

CheckFolder ==
    \E n \in ProjectNames :
        Serve(Request("check_folder", n, <<>>, <<>>, "", ""),
              check_folder(disk, PROJECT_CACHE, LIBRARY_CACHE, n))

ReadFiles ==
    \E n \in ProjectNames :
        Serve(Request("read_files", n, <<>>, <<>>, "", ""),
              read_files(disk, PROJECT_CACHE, LIBRARY_CACHE, n))

ListFilesInLibrary ==
    \E l \in BrowsedLibraries :
        Serve(Request("list_files_in_library", "", <<>>, <<>>, l, ""),
              list_files_in_library(disk, PROJECT_CACHE, LIBRARY_CACHE, l))

ReadLibraryFile ==
    \E l \in BrowsedLibraries : \E f \in LibraryReadPaths(l) :
        Serve(Request("read_library_file", "", f, <<>>, l, ""),
              read_library_file(disk, PROJECT_CACHE, LIBRARY_CACHE, l, f))

CompileProject ==
    \E n \in WriteNames : \E run \in Runs :
        Serve(ToolRequest("compile_project", n, "", run),
              compile_project(disk, PROJECT_CACHE, LIBRARY_CACHE, n, run))

UploadProject ==
    \E n \in WriteNames : \E run \in Runs :
        Serve(ToolRequest("upload_project", n, "", run),
              upload_project(disk, PROJECT_CACHE, LIBRARY_CACHE, n, run))

RelayCommand ==
    \E op \in RelayOps : \E run \in Runs :
        Serve(ToolRequest(op, "", "", run),
              relay_command(disk, PROJECT_CACHE, LIBRARY_CACHE, run))

\* install_library, uninstall_library, update_library: the tool runs, leaves
\* the disk d, and the handler goes on
ManageLibrary ==
    \E op \in ManageOps : \E l \in ManagedLibraries : \E run \in Runs :
        \E d \in ToolEffects(op, disk, l) :
            Serve(ToolRequest(op, "", l, run),
                  manage_library(d, PROJECT_CACHE, LIBRARY_CACHE, run))

UpdateAllLibraries ==
    \E run \in Runs : \E d \in ToolEffects("update_all_libraries", disk, "") :
        Serve(ToolRequest("update_all_libraries", "", "", run),
              manage_library(d, PROJECT_CACHE, LIBRARY_CACHE, run))

(* Out-of-band changes: another program changes the disk; no table follows *)

Outside(d) ==
    /\ Idle
    /\ oob < MaxOob
    /\ Cardinality(ProjFiles(d)) <= MaxProjFiles
    /\ disk' = d
    /\ oob' = oob + 1
    /\ last' = [Blank EXCEPT !.op = "outside"]
    /\ UNCHANGED <<PROJECT_CACHE, LIBRARY_CACHE, loop>>

OobRemove ==
    \E p \in {<<"P">>, <<"libraries">>} \cup {q \in DOMAIN disk.files : q[1] = "P"} :
        /\ Exists(disk, p)
        /\ Outside(Remove(disk, p))

OobWrite ==
    \E f \in OobPaths : \E b \in OobBytes :
        LET w == create_or_update_file(disk, <<"P">>, f, b)
        IN w.ok /\ Outside(w.disk)

OobMkdir ==
    /\ ~Exists(disk, <<"P">>)
    /\ Outside(MkdirP(disk, <<"P">>).disk)

\* the IDE's library manager installs M
OobInstall ==
    /\ ~Exists(disk, <<"libraries", "M">>)
    /\ Outside(Installed(disk, "M"))

\* the IDE's library manager removes M, or another program its header
OobUninstall ==
    \E p \in {<<"libraries", "M">>, <<"libraries", "M", "M.h">>} :
        /\ Exists(disk, p)
        /\ Outside(Remove(disk, p))

\* a regular file named P in ARDUINO_DIR
OobTouch ==
    /\ ~Exists(disk, <<"P">>)
    /\ Outside([disk EXCEPT !.files = Put(@, <<"P">>, <<118>>)])

\* the response is delivered; the server waits for the next request
Respond ==
    /\ ~Idle
    /\ last' = Blank
    /\ UNCHANGED <<disk, PROJECT_CACHE, LIBRARY_CACHE, oob, loop>>

\* refresh_project_cache called on its own, as a caller of the cache store may
RefreshProjectCache ==
    \E n \in ProjectNames :
        Serve(Request("refresh_project_cache", n, <<>>, <<>>, "", ""),
              Answer(200, <<>>, <<>>, disk,
                     refresh_project_cache(disk, PROJECT_CACHE, n), LIBRARY_CACHE))

Next ==
    \/ ListFilesInProject
    \/ ReadFile
    \/ CreateProject
    \/ UpdateSketch
    \/ ListProjects
    \/ ListLibraries
    \/ CopyLibraryExample
    \/ OobRemove
    \/ OobWrite
    \/ OobMkdir
    \/ OobTouch
    \/ Respond

Spec == Init /\ [][Next]_vars

\* every handler of the server
NextServer ==
    \/ ListFilesInProject
    \/ ReadFile
    \/ CreateProject
    \/ UpdateSketch
    \/ ListProjects
    \/ ListLibraries
    \/ CopyLibraryExample
    \/ CheckFolder
    \/ ReadFiles
    \/ ListFilesInLibrary
    \/ ReadLibraryFile
    \/ CompileProject
    \/ UploadProject
    \/ RelayCommand
    \/ ManageLibrary
    \/ UpdateAllLibraries
    \/ OobInstall
    \/ OobUninstall
    \/ Respond

SpecServer == Init /\ [][NextServer]_vars

\* the handlers, and the cache store's single-entry refresh as an operation
NextRefresh == Next \/ RefreshProjectCache

SpecRefresh == Init /\ [][NextRefresh]_vars

----------------------------------------------------------------------------
(* The handlers statement by statement, as the event loop runs them: two    *)
(* connections, each with a request that has been accepted; the loop runs   *)
(* one handler at a time and can change handlers only where the running one *)
(* awaits                                                                   *)

\* the requests of this part: the writes and the full rebuild
ConcurrentRequests ==
    UNION {{Request(op, n, w[1], w[2], "", "") : w \in Writes(n)} :
              op \in {"create_project", "update_sketch"}, n \in WriteNames}
        \cup {Request("list_projects", "", <<>>, <<>>, "", "")}

WriteOps == {"create_project", "update_sketch"}

Task(s) == loop.tasks[s]
Pending(s) == Task(s).pc \notin {"none", "done"}

\* mutation: every statement of a handler is followed by an await
Yields_BetweenStatements(op) == TRUE

\* does the handler give the loop back between two statements?  No handler
\* body holds an await
Yields(op) == FALSE

CanRun(s) == loop.running \in {0, s}

\* the loop after the handler of connection s ran a statement
After(s, t) ==
    [loop EXCEPT !.tasks[s] = t,
                 !.running = IF t.pc = "done" \/ Yields(t.op) THEN 0 ELSE s]

Finished(t, status) == [t EXCEPT !.pc = "done", !.status = status]

\* a request arrives on a free connection
Accept ==
    \E s \in Slots : \E req \in ConcurrentRequests :
        /\ loop.accepted < MaxAccepted
        /\ ~Pending(s)
        /\ loop' = [loop EXCEPT
               !.accepted = @ + 1,
               !.tasks = [t \in Slots |->
                   IF t = s
                   THEN [NoTask EXCEPT !.op = req.op, !.name = req.name,
                                       !.file = req.file, !.text = req.text,
                                       !.pc = "start",
                                       !.overlap = \E u \in Slots \ {s} : Pending(u)]
                   ELSE IF Pending(t) THEN [Task(t) EXCEPT !.overlap = TRUE]
                   ELSE Task(t)]]
        /\ UNCHANGED <<disk, PROJECT_CACHE, LIBRARY_CACHE, last, oob>>

\* create_project, update_sketch: the test of project_dir.exists()
RunWriteCheck(s) ==
    /\ CanRun(s)
    /\ Task(s).op \in WriteOps
    /\ Task(s).pc = "start"
    /\ LET there == Exists(disk, <<Task(s).name>>)
       IN loop' = After(s,
              IF Task(s).op = "create_project"
              THEN IF there THEN Finished(Task(s), 400)
                   ELSE [Task(s) EXCEPT !.pc = "write"]
              ELSE IF ~there THEN Finished(Task(s), 404)
                   ELSE [Task(s) EXCEPT !.pc = "write"])
    /\ UNCHANGED <<disk, PROJECT_CACHE, LIBRARY_CACHE, last, oob>>

WriteCheck == \E s \in Slots : RunWriteCheck(s)

\* project_dir.mkdir (create_project only) and create_or_update_file
WriteFile ==
    \E s \in Slots :
        /\ CanRun(s)
        /\ Task(s).op \in WriteOps
        /\ Task(s).pc = "write"
        /\ LET t == Task(s)
               mk == IF t.op = "create_project" THEN MkdirP(disk, <<t.name>>)
                     ELSE [ok |-> TRUE, disk |-> disk]
               w == create_or_update_file(mk.disk, <<t.name>>,
                        SketchPath(t.name, t.file), t.text)
           IN /\ disk' = IF mk.ok THEN w.disk ELSE disk
              /\ Cardinality(ProjFiles(disk')) <= MaxProjFiles
              /\ loop' = After(s, IF mk.ok /\ w.ok THEN [t EXCEPT !.pc = "refresh"]
                                  ELSE Finished(t, 500))
        /\ UNCHANGED <<PROJECT_CACHE, LIBRARY_CACHE, last, oob>>

\* refresh_project_cache(project_name) and the return
WriteRefresh ==
    \E s \in Slots :
        /\ CanRun(s)
        /\ Task(s).op \in WriteOps
        /\ Task(s).pc = "refresh"
        /\ PROJECT_CACHE' = refresh_project_cache(disk, PROJECT_CACHE, Task(s).name)
        /\ loop' = After(s, Finished(Task(s), 200))
        /\ UNCHANGED <<disk, LIBRARY_CACHE, last, oob>>

\* build_initial_project_cache: PROJECT_CACHE.clear()
RebuildClear ==
    \E s \in Slots :
        /\ CanRun(s)
        /\ Task(s).op = "list_projects"
        /\ Task(s).pc = "start"
        /\ PROJECT_CACHE' = [n \in {} |-> Entry(disk, <<n>>)]
        /\ loop' = After(s, [Task(s) EXCEPT !.pc = "iterdir"])
        /\ UNCHANGED <<disk, LIBRARY_CACHE, last, oob>>

\* ARDUINO_DIR.iterdir(): the names in the directory as the loop begins
RebuildIterdir ==
    \E s \in Slots :
        /\ CanRun(s)
        /\ Task(s).pc = "iterdir"
        /\ loop' = After(s, [Task(s) EXCEPT
                                !.pc = "scan",
                                !.todo = {Name(p) : p \in IterDir(disk, <<>>)}])
        /\ UNCHANGED <<disk, PROJECT_CACHE, LIBRARY_CACHE, last, oob>>

\* one item of the loop: the two tests, and get_files_in_dir(item)
RebuildScan ==
    \E s \in Slots : \E item \in Task(s).todo :
        /\ CanRun(s)
        /\ Task(s).pc = "scan"
        /\ loop' = After(s,
               IF ~IsDir(disk, <<item>>) \/ ExcludedProject(item)
               THEN [Task(s) EXCEPT !.todo = @ \ {item}]
               ELSE [Task(s) EXCEPT !.pc = "store", !.item = item,
                                    !.files = get_files_in_dir(disk, <<item>>)])
        /\ UNCHANGED <<disk, PROJECT_CACHE, LIBRARY_CACHE, last, oob>>

\* PROJECT_CACHE[project_name] = {"path": item, "files": ...}
RebuildStore ==
    \E s \in Slots :
        /\ CanRun(s)
        /\ Task(s).pc = "store"
        /\ PROJECT_CACHE' = Upsert(PROJECT_CACHE, Task(s).item,
                                   [path |-> <<Task(s).item>>, files |-> Task(s).files])
        /\ loop' = After(s, [Task(s) EXCEPT !.pc = "scan", !.todo = @ \ {Task(s).item},
                                            !.item = "", !.files = <<>>])
        /\ UNCHANGED <<disk, LIBRARY_CACHE, last, oob>>

\* list_projects: sorted(PROJECT_CACHE.keys()) and the return
RebuildReturn ==
    \E s \in Slots :
        /\ CanRun(s)
        /\ Task(s).pc = "scan"
        /\ Task(s).todo = {}
        /\ loop' = After(s, [Finished(Task(s), 200) EXCEPT
                                !.files = SortedKeys(PROJECT_CACHE)])
        /\ UNCHANGED <<disk, PROJECT_CACHE, LIBRARY_CACHE, last, oob>>

NextConcurrent ==
    \/ Accept
    \/ WriteCheck
    \/ WriteFile
    \/ WriteRefresh
    \/ RebuildClear
    \/ RebuildIterdir
    \/ RebuildScan
    \/ RebuildStore
    \/ RebuildReturn

SpecConcurrent == Init /\ [][NextConcurrent]_vars

----------------------------------------------------------------------------
(* What the claims speak of, stated without the operators above *)

\* a relative path in normal form none of whose components is hidden and whose
\* file name is no OS artifact: the paths a listing may hold
Listable(rel) ==
    /\ rel # <<>>
    /\ \A i \in 1..Len(rel) : Chars(rel[i])[1] # 46
    /\ rel[Len(rel)] \notin {"Thumbs.db", ".DS_Store"}

\* the listable files below a directory, relative to it
ListableBelow(d, dir) ==
    {rel \in {RelativeTo(p, dir) : p \in {q \in DOMAIN d.files : IsPrefix(dir, q)}} :
        Listable(rel)}

Members(files) == {files[i] : i \in 1..Len(files)}
Occurrences(files, f) == Cardinality({i \in 1..Len(files) : files[i] = f})

\* strictly increasing as strings
InOrder(files) ==
    \A i \in 1..Len(files) : \A j \in 1..Len(files) :
        i < j => StrLess(PathStr(files[i]), PathStr(files[j]))

\* the step serves a request of the given kind
Handled(op) == last'.op = op

\* the path a write request names
Written == SketchPath(last.name, last.file)

----------------------------------------------------------------------------
(* C1 *)

\* C1 as stated: after update_sketch(P, f, content) succeeds, for every
\* relative path f, the next list_files_in_project(P) lists f exactly once,
\* in sorted order.
C1_EveryPathListed ==
    (last.op = "update_sketch" /\ last.status = 200) =>
        LET r == list_files_in_project(disk, PROJECT_CACHE, LIBRARY_CACHE, last.name)
        IN /\ r.status = 200
           /\ Occurrences(r.files, Written) = 1
           /\ InOrder(r.files)

\* C1, amended: after update_sketch(P, f, content) succeeds with f a path in
\* normal form that the scanner lists (no hidden component, no OS artifact
\* name; P.ino when f is omitted), the next list_files_in_project(P) lists f
\* exactly once, in sorted order.
C1_WrittenPathListed ==
    (last.op = "update_sketch" /\ last.status = 200 /\ Listable(Written)) =>
        LET r == list_files_in_project(disk, PROJECT_CACHE, LIBRARY_CACHE, last.name)
        IN /\ r.status = 200
           /\ Occurrences(r.files, Written) = 1
           /\ InOrder(r.files)

\* a listable file was written into a project that now lists two files
C1_Witness ==
    /\ last.op = "update_sketch"
    /\ last.status = 200
    /\ Listable(Written)
    /\ last.name \in DOMAIN PROJECT_CACHE
    /\ Len(PROJECT_CACHE[last.name].files) = 2

----------------------------------------------------------------------------
(* C2 *)

\* the file a read request names, and what the request met
ReadTarget == <<last.name>> \o Normal(last.file)
ReadMissedListing ==
    /\ last.op = "read_file"
    /\ last.hit
    /\ ~InListing(last.file, last.pre)
    /\ IsFile(disk, ReadTarget)

ReadRefreshedAndServed ==
    /\ last.status = 200
    /\ last.content = Decode(disk.files[ReadTarget])
    /\ last.name \in DOMAIN PROJECT_CACHE
    /\ Members(PROJECT_CACHE[last.name].files) = ListableBelow(disk, <<last.name>>)

\* C2 as stated: read_file(P, f) for a cached P and any f missing from the
\* cached listing succeeds when the file P/f is on disk, returns its content
\* (decoded as text) and leaves P's entry refreshed.
C2_AnyFileOnDiskIsRead == ReadMissedListing => ReadRefreshedAndServed

\* C2, amended: the same for every f in normal form that the scanner lists
\* (no hidden component, no OS artifact name).
C2_ListableFileOnDiskIsRead ==
    (ReadMissedListing /\ Listable(last.file)) => ReadRefreshedAndServed

\* a file another program wrote, absent from the cached listing, was read
C2_Witness ==
    /\ ReadMissedListing
    /\ Listable(last.file)
    /\ last.status = 200
    /\ last.content = <<65533>>

----------------------------------------------------------------------------
(* C3 *)

ListedAbsentDirectory ==
    last.op = "list_files_in_project" /\ ~Exists(disk, <<last.name>>)

\* C3 as stated: list_files_in_project(P) answers 404, never a listing, when
\* P's directory is not on disk at the time of the request.
C3_NoListingForAbsentDirectory == ListedAbsentDirectory => last.status = 404

\* C3, amended: when P's directory is not on disk, list_files_in_project(P)
\* answers 404 if P is not in the project table; if P is still in the table
\* (its directory was deleted out-of-band since the last refresh) it returns
\* the cached listing without looking at the disk.
C3_AbsentDirectoryListedOnlyFromTable ==
    ListedAbsentDirectory =>
        IF last.hit
        THEN last.status = 200 /\ last.files = last.pre
        ELSE last.status = 404 /\ last.name \notin DOMAIN PROJECT_CACHE

\* a project deleted out-of-band, and still in the table, was asked for
C3_Witness ==
    /\ ListedAbsentDirectory
    /\ last.hit
    /\ last.status = 200

----------------------------------------------------------------------------
(* C4 *)

\* the entry a single-entry refresh stores for n, given the disk
FreshEntry(e, d, n) ==
    /\ e.path = <<n>>
    /\ InOrder(e.files)
    /\ Members(e.files) = ListableBelow(d, <<n>>)

OthersKept(n) ==
    /\ DOMAIN PROJECT_CACHE' \ {n} = DOMAIN PROJECT_CACHE \ {n}
    /\ \A k \in DOMAIN PROJECT_CACHE \ {n} : PROJECT_CACHE'[k] = PROJECT_CACHE[k]

MissAnswered ==
    LET n == last'.name
        f == last'.file
    IN IF ~Exists(disk, <<n>>)
       THEN last'.status = 404 /\ PROJECT_CACHE' = PROJECT_CACHE
       ELSE /\ n \in DOMAIN PROJECT_CACHE'
            /\ FreshEntry(PROJECT_CACHE'[n], disk, n)
            /\ OthersKept(n)
            /\ IF last'.op = "list_files_in_project"
               THEN last'.status = 200 /\ last'.files = PROJECT_CACHE'[n].files
               ELSE IF InListing(f, PROJECT_CACHE'[n].files)
               THEN /\ last'.status = 200
                    /\ last'.content = Decode(disk.files[<<n>> \o f])
               ELSE last'.status = 404

\* C4: list_files_in_project(P) and read_file(P, f) with P absent from the
\* project table answer 404 and leave the table as it was when P is not on
\* disk; when it is, a single-entry refresh inserts P and the answer comes
\* from the refreshed entry.
C4_MissChecksDiskThenRefreshes ==
    [][((Handled("list_files_in_project") \/ Handled("read_file"))
        /\ last'.name \notin DOMAIN PROJECT_CACHE) => MissAnswered]_vars

\* a file of a project that was on disk but not in the table was read
C4_Witness ==
    /\ last.op = "read_file"
    /\ ~last.hit
    /\ last.there
    /\ last.status = 200
    /\ last.name \in DOMAIN PROJECT_CACHE

----------------------------------------------------------------------------
(* C5 *)

\* C5: create_project(P, ...) when P already exists on disk answers 400 and
\* leaves the disk and both tables as they were.
C5_CreateExistingConflicts ==
    [][(Handled("create_project") /\ Exists(disk, <<last'.name>>)) =>
           /\ last'.status = 400
           /\ disk' = disk
           /\ PROJECT_CACHE' = PROJECT_CACHE
           /\ LIBRARY_CACHE' = LIBRARY_CACHE]_vars

\* a project that exists with a file was created again
C5_Witness ==
    /\ last.op = "create_project"
    /\ last.there
    /\ last.status = 400
    /\ \E p \in DOMAIN disk.files : p[1] = last.name

----------------------------------------------------------------------------
(* C6 *)

\* C6, for the paths a listing can hold: after create_project(P, c, f) or
\* update_sketch(P, c, f) succeeds, an immediately following read_file of
\* the written path (P.ino when f was omitted) succeeds and returns exactly c.
C6_ReadReturnsWhatWasWritten ==
    (last.op \in {"create_project", "update_sketch"} /\ last.status = 200
     /\ Listable(Written)) =>
        LET r == read_file(disk, PROJECT_CACHE, LIBRARY_CACHE, last.name, Written)
        IN r.status = 200 /\ r.content = last.text

----------------------------------------------------------------------------
(* C7 *)

RootNames == {p[1] : p \in {q \in disk.dirs \cup DOMAIN disk.files : Len(q) = 1}}

Rebuilt == last.op \in {"startup", "list_projects"}

RebuiltEntries ==
    /\ \A n \in DOMAIN PROJECT_CACHE :
           PROJECT_CACHE[n] = [path |-> <<n>>, files |-> get_files_in_dir(disk, <<n>>)]
    /\ last.op = "list_projects" =>
           /\ InOrder(last.files)
           /\ Members(last.files) = {<<n>> : n \in DOMAIN PROJECT_CACHE}

\* C7 as stated: right after a full rebuild the table's keys are the
\* subdirectories of the root that are not hidden and whose name is not
\* hardware, libraries or tools; each entry holds the scanner's result, and
\* list_projects returns the keys sorted.
C7_KeysAreNonExcludedDirectories ==
    Rebuilt =>
        /\ DOMAIN PROJECT_CACHE =
               {n \in RootNames : /\ IsDir(disk, <<n>>)
                                  /\ Chars(n)[1] # 46
                                  /\ n \notin {"hardware", "libraries", "tools"}}
        /\ RebuiltEntries

\* C7, amended: the same with the exclusion decided on the lower-cased name
\* (a directory named Tools, Libraries or HARDWARE is left out as well).
C7_KeysAreNonExcludedDirectoriesAnyCase ==
    Rebuilt =>
        /\ DOMAIN PROJECT_CACHE =
               {n \in RootNames :
                    /\ IsDir(disk, <<n>>)
                    /\ Chars(n)[1] # 46
                    /\ Lower(n) \notin {Chars("hardware"), Chars("libraries"),
                                        Chars("tools")}}
        /\ RebuiltEntries

\* list_projects ran with a project, a folder named Tools and the libraries
\* folder on disk
C7_Witness ==
    /\ last.op = "list_projects"
    /\ IsDir(disk, <<"Tools">>)
    /\ IsDir(disk, <<"libraries">>)
    /\ "P" \in DOMAIN PROJECT_CACHE
    /\ last.files = <<<<"P">>>>

----------------------------------------------------------------------------
(* C8 *)

\* C8: refresh_project_cache(P) run while P is absent on disk leaves P out
\* of the project table and every other entry as it was.
C8_RefreshEvictsAbsent ==
    [][(Handled("refresh_project_cache") /\ ~Exists(disk, <<last'.name>>)) =>
           /\ last'.name \notin DOMAIN PROJECT_CACHE'
           /\ OthersKept(last'.name)]_vars

\* an entry whose directory was deleted out-of-band was refreshed away, and
\* another entry stayed
C8_Witness ==
    /\ last.op = "refresh_project_cache"
    /\ last.hit
    /\ ~Exists(disk, <<last.name>>)
    /\ last.name \notin DOMAIN PROJECT_CACHE
    /\ DOMAIN PROJECT_CACHE # {}

----------------------------------------------------------------------------
(* C9 *)

\* C9: the project table never holds an entry named hardware, libraries or
\* tools, nor one whose name starts with '.'.
C9_NoExcludedEntry ==
    \A n \in DOMAIN PROJECT_CACHE :
        Chars(n)[1] # 46 /\ n \notin {"hardware", "libraries", "tools"}

----------------------------------------------------------------------------
(* C10 *)

CopySource == <<"libraries", last'.lib, "examples", last'.ex>>

\* C10: copy_library_example(L, E, N) for a cached library L, an existing
\* example folder E and a name N not yet on disk leaves N's cached listing
\* the sorted relative paths of the non-hidden, non-artifact files below
\* L/examples/E, each file with its source's content, and the library table
\* as it was.
C10_CopyMirrorsExample ==
    [][(/\ Handled("copy_library_example")
        /\ last'.lib \in DOMAIN LIBRARY_CACHE
        /\ IsDir(disk, CopySource)
        /\ ~Exists(disk, <<last'.name>>)) =>
           /\ last'.status = 200
           /\ last'.name \in DOMAIN PROJECT_CACHE'
           /\ InOrder(PROJECT_CACHE'[last'.name].files)
           /\ Members(PROJECT_CACHE'[last'.name].files) = ListableBelow(disk, CopySource)
           /\ \A rel \in ListableBelow(disk, CopySource) :
                  /\ IsFile(disk', <<last'.name>> \o rel)
                  /\ disk'.files[<<last'.name>> \o rel] = disk.files[CopySource \o rel]
           /\ LIBRARY_CACHE' = LIBRARY_CACHE]_vars

\* an example with a nested file was copied into a new project
C10_Witness ==
    /\ last.op = "copy_library_example"
    /\ ~last.there
    /\ last.status = 200
    /\ last.name \in DOMAIN PROJECT_CACHE
    /\ PROJECT_CACHE[last.name].files = <<<<"a.ino">>, <<"data", "b.txt">>>>

----------------------------------------------------------------------------
(* C11 *)

LibraryRequest ==
    last'.op \in {"list_files_in_library", "read_library_file", "copy_library_example"}

\* the answer says that the library was not found
LibraryNotFound == last'.status = 404 /\ ~last'.libhit

\* C11 as stated: list_files_in_library, read_library_file and
\* copy_library_example never answer 404 for a library whose directory
\* exists under libraries/ on disk at the time of the request.
C11_NoNotFoundForLibraryOnDisk ==
    [][(LibraryRequest /\ IsDir(disk, <<"libraries", last'.lib>>)) =>
           ~LibraryNotFound]_vars

\* C11, amended: these requests answer 404 for library L exactly when L is
\* not in the library table at the time of the request; they neither look at
\* the disk nor refresh, so a library installed out-of-band since the last
\* full rebuild is answered 404 although its directory exists.  With L in
\* the table the listing is answered from the table, and a 404 means that the
\* file is not in the cached listing or that the example folder is not on disk.
C11_NotFoundIffNotInTable ==
    [][LibraryRequest =>
           IF ~(last'.lib \in DOMAIN LIBRARY_CACHE)
           THEN /\ last'.status = 404
                /\ disk' = disk
                /\ PROJECT_CACHE' = PROJECT_CACHE
                /\ LIBRARY_CACHE' = LIBRARY_CACHE
           ELSE /\ last'.op = "list_files_in_library" =>
                       /\ last'.status = 200
                       /\ last'.files = LIBRARY_CACHE[last'.lib].files
                /\ (last'.op = "read_library_file" /\ last'.status = 404) =>
                       ~InListing(last'.file, LIBRARY_CACHE[last'.lib].files)
                /\ (last'.op = "copy_library_example" /\ last'.status = 404) =>
                       ~IsDir(disk, CopySource)]_vars

\* a library that is on disk but not in the table was asked for
C11_Witness ==
    /\ last.op = "list_files_in_library"
    /\ ~last.libhit
    /\ last.status = 404
    /\ IsDir(disk, <<"libraries", last.lib>>)
    /\ IsFile(disk, <<"libraries", last.lib, "M.h">>)

----------------------------------------------------------------------------
(* C12 *)

RebuildOps ==
    {"list_libraries", "install_library", "uninstall_library", "update_library",
     "update_all_libraries"}

\* the library table is what a full rebuild makes of the disk: one entry for
\* each folder of libraries/ whose name does not start with '.', with the
\* sorted listable files below it
LibraryTableScanned ==
    /\ DOMAIN LIBRARY_CACHE =
           {p[2] : p \in {q \in disk.dirs : /\ Len(q) = 2
                                            /\ q[1] = "libraries"
                                            /\ Chars(q[2])[1] # 46}}
    /\ \A l \in DOMAIN LIBRARY_CACHE :
           /\ LIBRARY_CACHE[l].path = <<"libraries", l>>
           /\ InOrder(LIBRARY_CACHE[l].files)
           /\ Members(LIBRARY_CACHE[l].files) = ListableBelow(disk, <<"libraries", l>>)

\* C12: every request other than list_libraries, install_library,
\* uninstall_library, update_library and update_all_libraries leaves the
\* library table as it was, and those five leave it a full rebuild from the
\* disk: no step changes the table in any other way.
C12_LibraryTableOnlyRebuilt ==
    [][/\ last'.op \notin RebuildOps => LIBRARY_CACHE' = LIBRARY_CACHE
       /\ last'.op \in RebuildOps => LibraryTableScanned']_vars

\* a copy was made while the table lacked a library that is on disk, and
\* the table still lacks it
C12_Witness ==
    /\ last.op = "copy_library_example"
    /\ last.status = 200
    /\ IsDir(disk, <<"libraries", "M">>)
    /\ "M" \notin DOMAIN LIBRARY_CACHE
    /\ "L" \in DOMAIN LIBRARY_CACHE

----------------------------------------------------------------------------
(* C13 *)

\* the file a read request names, in a project or in a library
AskedFile ==
    IF last.op = "read_file" THEN <<last.name>> \o Normal(last.file)
    ELSE <<"libraries", last.lib>> \o Normal(last.file)

\* C13: read_file(P, f) and read_library_file(L, f) answer 404 when the file
\* is not on disk, also when f is still in the cached listing; 500 is kept
\* for failures other than absence.
C13_AbsentFileIsNotFound ==
    (last.op \in {"read_file", "read_library_file"} /\ ~Exists(disk, AskedFile)) =>
        last.status = 404

\* the handler got as far as run_command: compile and upload first want the
\* project and its default sketch on disk
ToolRan ==
    /\ last.run # NoRun
    /\ last.op \in {"compile_project", "upload_project"} =>
           /\ Exists(disk, <<last.name>>)
           /\ Exists(disk, <<last.name, DefaultSketch(last.name)>>)

\* the two shapes, stated from what the tool's process did
ResultShape(run) ==
    IF run.kind = "returned"
    THEN [status |-> "success", output |-> run.stdout, error |-> ""]
    ELSE [status |-> "error", output |-> "",
          error |-> IF run.kind = "CalledProcessError" THEN run.stderr ELSE run.text]

\* C14: run_command returns status=success with the captured stdout and an
\* empty error when the tool exits 0, and status=error with an empty output
\* and the captured stderr (another exit code) or the exception's text (the
\* process could not be run) otherwise; every handler that ran the tool
\* answers 200, with that result or, for compile and upload on error, with
\* status=error and the error text as message.
C14_ToolResultShapes ==
    ToolRan =>
        /\ last.status = 200
        /\ IF last.op \in {"compile_project", "upload_project"}
              /\ last.run.kind # "returned"
           THEN last.body = [status |-> "error",
                             message |-> ResultShape(last.run).error]
           ELSE last.body = ResultShape(last.run)

\* a compilation failed: the tool exited with another code than 0
C14_Witness ==
    /\ last.op = "compile_project"
    /\ last.run.kind = "CalledProcessError"
    /\ last.status = 200
    /\ last.body = [status |-> "error", message |-> "err"]

----------------------------------------------------------------------------
(* C15 *)

\* the cached listings of both tables, each with the directory it stands for
CachedListings ==
    {<<PROJECT_CACHE[n].files, <<n>>>> : n \in DOMAIN PROJECT_CACHE}
        \cup {<<LIBRARY_CACHE[l].files, <<"libraries", l>>>> : l \in DOMAIN LIBRARY_CACHE}

\* sorted as strings without duplicates, no hidden component, no OS artifact
CleanListing(files) ==
    /\ InOrder(files)
    /\ \A i \in 1..Len(files) : Listable(files[i])

HoldsNoFiles(dir) ==
    IsDir(disk, dir) /\ ~\E p \in DOMAIN disk.files : IsPrefix(dir, p)

\* C15 as stated: in every reachable state every cached listing is sorted,
\* without duplicates, without hidden components and OS artifacts, and an
\* entry whose directory holds no files has the empty listing.
C15_ListingsCleanAndEmptyForEmpty ==
    \A c \in CachedListings :
        /\ CleanListing(c[1])
        /\ HoldsNoFiles(c[2]) => c[1] = <<>>

\* C15, amended: in every reachable state every cached listing is sorted,
\* without duplicates, without hidden components and OS artifacts; as long
\* as no out-of-band change of the disk has occurred, an entry whose
\* directory holds no files has the empty listing (after an out-of-band
\* deletion the listing is stale until the next refresh).
C15_ListingsCleanAndEmptyForEmptyUnlessStale ==
    \A c \in CachedListings :
        /\ CleanListing(c[1])
        /\ (oob = 0 /\ HoldsNoFiles(c[2])) => c[1] = <<>>

\* no out-of-band change so far; the tables hold a listing of two files at
\* two depths and the empty listing of an empty directory
C15_Witness ==
    /\ oob = 0
    /\ \E c \in CachedListings : c[1] = <<<<"a.ino">>, <<"data", "b.txt">>>>
    /\ \E c \in CachedListings : HoldsNoFiles(c[2]) /\ c[1] = <<>>
    /\ \E l \in DOMAIN LIBRARY_CACHE : Len(LIBRARY_CACHE[l].files) = 2

----------------------------------------------------------------------------
(* C16 *)

\* C16: as long as no out-of-band change of the disk has occurred, after
\* every completed request every entry of the project table stands for a
\* directory that exists, and its files are a fresh scan of that directory.
C16_TableMatchesDiskWithoutOob ==
    oob = 0 =>
        \A n \in DOMAIN PROJECT_CACHE :
            /\ IsDir(disk, <<n>>)
            /\ InOrder(PROJECT_CACHE[n].files)
            /\ Members(PROJECT_CACHE[n].files) = ListableBelow(disk, <<n>>)

----------------------------------------------------------------------------
(* C17 *)

MidRebuild(s) ==
    Task(s).op = "list_projects" /\ Task(s).pc \in {"iterdir", "scan", "store"}

\* a write of a listable path into a project that the full rebuild keeps
KeptWrite(t) ==
    /\ t.op \in WriteOps
    /\ t.pc = "done"
    /\ t.status = 200
    /\ Listable(SketchPath(t.name, t.file))
    /\ Chars(t.name)[1] # 46
    /\ Lower(t.name) \notin {Chars("hardware"), Chars("libraries"), Chars("tools")}

----------------------------------------------------------------------------
(* C18 *)

ManageRequest ==
    last'.op \in {"install_library", "uninstall_library", "update_library",
                  "update_all_libraries"}

\* C18: install_library, uninstall_library, update_library and
\* update_all_libraries answer with the tool's result as run_command shaped
\* it, whether success or error, and leave the library table a full scan of
\* the libraries directory as the tool left it.
C18_RebuiltAfterTool ==
    [][ManageRequest =>
           /\ last'.status = 200
           /\ last'.body = ResultShape(last'.run)
           /\ LibraryTableScanned']_vars

\* the tool reported a failure and yet had installed the library: the table
\* has it
C18_Witness ==
    /\ last.op = "install_library"
    /\ last.run.kind = "CalledProcessError"
    /\ ~last.libhit
    /\ last.lib \in DOMAIN LIBRARY_CACHE
    /\ LIBRARY_CACHE[last.lib].files = <<<<"M.h">>>>

----------------------------------------------------------------------------
(* C19 *)

\* C19: after create_project(P, ...) succeeds, P is in the project table and
\* a list_projects that comes next, with no out-of-band change in between,
\* has P in its projects list.
C19_CreatedProjectStaysListed ==
    (last.op = "create_project" /\ last.status = 200) =>
        /\ last.name \in DOMAIN PROJECT_CACHE
        /\ LET r == list_projects(disk, PROJECT_CACHE, LIBRARY_CACHE)
           IN /\ InListing(<<last.name>>, r.files)
              /\ last.name \in DOMAIN r.projects

====
